---- MODULE Spec2Model ----
(***************************************************************************)
(* CustomVehicleApp of app/src/main.py: the head-up display that shows a   *)
(* weather or collision alert for a fixed time.  Three execution contexts  *)
(* share the object's fields without any lock:                             *)
(*   - the paho-mqtt network thread (loop_start, line 100) runs on_message *)
(*   - the asyncio event loop runs the coroutine run() ...                 *)
(*   - ... and the task monitor_kuksa(), which iterates a blocking         *)
(*     generator and therefore holds the event loop while it waits.        *)
(***************************************************************************)
EXTENDS Integers, Sequences, FiniteSets, TLC

\* ------------------------------------------------------------------ bounds
\* Largest value the wall clock takes.
MaxTime == 6
\* Largest number of MQTT messages delivered to on_message.
MaxMessages == 2
\* Largest number of updates the KUKSA subscription yields.
MaxUpdates == 1

\* ------------------------------------------------------- program constants
TOPIC_ALERT == "alert/car"
TOPIC_WEATHER == "alert/weather"
\* "time.time() - self.message_display_time > 5"
displayTTL == 5
\* "if self.slide_value >= 500"
slideThreshold == 500

\* ------------------------------------------------------------ Python values
\* A Python object is a record tagged with its type, so that an operation on
\* the wrong type can raise as it does in Python.
PyNone == [type |-> "NoneType"]
PyInt(n) == [type |-> "int", int |-> n]
PyStr(parts) == [type |-> "str", parts |-> parts]
PyDict(d) == [type |-> "dict", items |-> d]
\* The result of geopy.distance.distance(a, b).km rounded to one decimal.  The
\* geodesic computation belongs to geopy; its value is kept as the term of its
\* four arguments.
PyKm(a_lat, a_lon, b_lat, b_lon) ==
    [type |-> "float", km |-> <<a_lat, a_lon, b_lat, b_lon>>]

\* Python's truth value of an object: None, 0 and "" are false.
Truthy(v) ==
    CASE v.type = "NoneType" -> FALSE
      [] v.type = "int" -> v.int # 0
      [] v.type = "str" -> v.parts # <<>>
      [] OTHER -> TRUE

\* dict.get(key, default); raises AttributeError when data is not a dict.
HasGet(data) == data.type = "dict"
Get(data, key, default) ==
    IF key \in DOMAIN data.items THEN data.items[key] ELSE default

\* obj[key] succeeds only on a dict that holds the key (TypeError on None and
\* on a str index, KeyError on a missing key).
CanIndex(obj, key) == obj.type = "dict" /\ key \in DOMAIN obj.items

\* a >= b on two ints; Python 3 raises TypeError for str >= int, None >= int.
CanCompare(a) == a.type = "int"

\* ------------------------------------------------------------------ inputs
\* message.payload: bytes that are not UTF-8, UTF-8 text that is not JSON, or
\* the JSON text of a value.
InvalidUtf8 == [bytes |-> "invalid utf-8"]
InvalidJson == [bytes |-> "invalid json"]
JsonText(v) == [bytes |-> "json", value |-> v]

\* payload.decode("utf-8") then json.loads: TRUE when neither raises.
Decodes(payload) == payload.bytes = "json"
json_loads(payload) == payload.value

ValidLocation == PyDict([latitude |-> PyInt(51), longitude |-> PyInt(10)])

WeatherData ==
    { PyDict([slide_value |-> PyInt(500), humidity |-> PyInt(40)]),
      PyDict([slide_value |-> PyInt(499)]),
      PyDict(<<>>),
      PyDict([slide_value |-> PyStr(<<"high">>), humidity |-> PyInt(40)]) }

CollisionData ==
    { PyDict([collision_location |-> ValidLocation]),
      PyDict(<<>>),
      PyDict([collision_location |-> PyStr(<<"51,10">>)]),
      PyDict([collision_location |-> PyDict([latitude |-> PyInt(51)])]) }

Payloads(topic) ==
    {InvalidUtf8, InvalidJson, JsonText(PyInt(7))}
        \cup { JsonText(d) :
                 d \in IF topic = TOPIC_WEATHER THEN WeatherData ELSE CollisionData }

\* on_connect subscribes to these two topics only.
Topics == {TOPIC_ALERT, TOPIC_WEATHER}

\* Datapoint values the KUKSA databroker reports for an axis; 0 is a valid
\* coordinate (equator, prime meridian).
LatitudeValues == {PyNone, PyInt(0), PyInt(51)}
LongitudeValues == {PyNone, PyInt(0), PyInt(10)}
LATITUDE == "Vehicle.CurrentLocation.Latitude"
LONGITUDE == "Vehicle.CurrentLocation.Longitude"

\* One item of subscribe_current_values: a dict from the paths this
\* notification carries to their Datapoint.  A notification carries both paths
\* or only the one that changed.
Updates ==
    { [p \in {LATITUDE, LONGITUDE} |->
          [value |-> IF p = LATITUDE THEN la ELSE lo]] :
        la \in LatitudeValues, lo \in LongitudeValues }
    \cup { [p \in {LATITUDE} |-> [value |-> la]] : la \in LatitudeValues }
    \cup { [p \in {LONGITUDE} |-> [value |-> lo]] : lo \in LongitudeValues }

\* -------------------------------------------------------------------- state
VARIABLES
    \* fields of CustomVehicleApp
    message_to_display,
    slide_value,
    humidity,
    slide_cnt,
    message_display_time,
    this_location,
    collision_location,
    \* time.time(), in seconds
    now,
    \* on_message on the MQTT network thread: the line it is about to execute,
    \* message.topic, and the latitude it has read for the distance
    mqtt_pc,
    mqtt_topic,
    mqtt_latitude,
    \* number of messages delivered so far
    calls,
    \* run(): the line it is about to execute, and whether it has completed a
    \* tick since the clock last moved
    run_pc,
    ticked,
    \* monitor_kuksa(): the line it is about to execute, the longitude it has
    \* read from the update, the number of updates consumed
    kuksa_pc,
    kuksa_longitude,
    updates,
    \* the connections made in __init__ (lines 99-100, 103) and the pygame
    \* display opened at line 52
    mqtt_client,
    kuksa_client,
    screen,
    \* History of the execution, read by no action:
    \* the call that wrote message_to_display (0: none)
    msg_call,
    \* the call that wrote message_display_time, its topic and the time it
    \* did so (call 0: none)
    stamped,
    \* how the latest call of on_message returned
    returned,
    \* number of weather payloads delivered whose slide_value was >= 500
    slides,
    \* a tick has run later than 5 s after the latest stamp
    ticked_late,
    \* the call that wrote the text the tick in progress has drawn (0: no
    \* tick in progress has drawn a text)
    seen

app == <<message_to_display, slide_value, humidity, slide_cnt,
         message_display_time, this_location, collision_location>>
mqtt == <<mqtt_pc, mqtt_topic, mqtt_latitude, calls>>
kuksa == <<kuksa_pc, kuksa_longitude, updates>>
on_message_history == <<msg_call, stamped, returned, slides>>
run_history == <<ticked_late, seen>>
resources == <<mqtt_client, kuksa_client, screen>>
vars == <<app, now, resources, mqtt, run_pc, ticked, kuksa, on_message_history,
          run_history>>

PyTime(t) == [type |-> "float", secs |-> t]

\* __init__, lines 106-114, and the tasks as main() leaves them: run() about
\* to start, monitor_kuksa() not yet created.
Init ==
    /\ message_to_display = PyNone
    /\ slide_value = PyInt(0)
    /\ humidity = PyInt(0)
    /\ slide_cnt = 0
    /\ message_display_time = PyNone
    /\ this_location = [latitude |-> PyInt(50), longitude |-> PyInt(9)]
    /\ collision_location = PyDict([latitude |-> PyInt(100), longitude |-> PyInt(9)])
    /\ now = 0
    /\ mqtt_pc = "idle"
    /\ mqtt_topic = ""
    /\ mqtt_latitude = PyNone
    /\ calls = 0
    /\ run_pc = "line183"
    /\ ticked = FALSE
    /\ kuksa_pc = "not created"
    /\ kuksa_longitude = PyNone
    /\ updates = 0
    /\ mqtt_client = "connected"
    /\ kuksa_client = "connected"
    /\ screen = "open"
    /\ msg_call = 0
    /\ stamped = [call |-> 0, topic |-> "", at |-> 0]
    /\ returned = "never called"
    /\ slides = 0
    /\ ticked_late = FALSE
    /\ seen = 0

\* --------------------------------------------------------------- on_message
\* f"Slide Count: {self.slide_cnt}"
WeatherText(cnt) == PyStr(<<"Slide Count: ", cnt>>)

\* f"Collision Distance: {round(accident_distance, 1)} KM"
CollisionText(km) == PyStr(<<"Collision Distance: ", km, " KM">>)

\* Variant of CountsAsSlide: the threshold itself does not count.
CountsAboveThreshold(v) == v.int > slideThreshold

\* "if self.slide_value >= 500"
CountsAsSlide(v) == v.int >= slideThreshold

\* Lines 131-132 succeed and the JSON value is an object, so data.get exists.
IsObject(payload) == Decodes(payload) /\ HasGet(json_loads(payload))

\* run() has left with an unhandled exception.
Raised == run_pc \in {"raised at line 196", "raised at line 218"}

\* The process is over: the exception, SystemExit from line 188, or the
\* RuntimeError of a stopped loop has left run_until_complete (line 263) and
\* the interpreter shuts down, taking the daemon thread of the MQTT client
\* with it.
Ended == Raised \/ run_pc \in {"exited", "stopped"}

\* paho delivers one message at a time: a call starts when the previous one
\* has returned.
Delivered == mqtt_pc = "idle" /\ calls < MaxMessages /\ ~Ended

\* Variant of OnMessageDecodeError: line 159 runs although the payload was
\* dropped, as it would from a finally clause.
OnMessageDecodeErrorStamps(topic, payload) ==
    /\ Delivered
    /\ ~IsObject(payload)
    /\ calls' = calls + 1
    /\ message_display_time' = PyTime(now)
    /\ returned' = IF Decodes(payload) THEN "attribute error" ELSE "decode error"
    /\ UNCHANGED <<message_to_display, slide_value, humidity, slide_cnt,
                   this_location, collision_location, now, resources, mqtt_pc,
                   mqtt_topic, mqtt_latitude, run_pc, ticked, kuksa, msg_call,
                   stamped, slides, run_history>>

\* Lines 131-133 raise (UnicodeDecodeError, JSONDecodeError) or line 135/142
\* raises AttributeError because the JSON value has no get(): the except
\* clause logs and the call returns.
OnMessageDecodeError(topic, payload) ==
    /\ Delivered
    /\ ~IsObject(payload)
    /\ calls' = calls + 1
    /\ returned' = IF Decodes(payload) THEN "attribute error" ELSE "decode error"
    /\ UNCHANGED <<app, now, resources, mqtt_pc, mqtt_topic, mqtt_latitude,
                   run_pc, ticked, kuksa, msg_call, stamped, slides,
                   run_history>>

\* Variant of OnMessageWeather: the text is formatted before the threshold
\* test, so it shows the count without this event's increment.
OnMessageWeatherTextFirst(payload) ==
    /\ Delivered
    /\ IsObject(payload)
    /\ LET data == json_loads(payload)
           sv == Get(data, "slide_value", PyInt(0))
           cnt == IF CountsAsSlide(sv) THEN slide_cnt + 1 ELSE slide_cnt
       IN /\ CanCompare(sv)
          /\ slide_value' = sv
          /\ humidity' = Get(data, "humidity", PyInt(0))
          /\ slide_cnt' = cnt
          /\ message_to_display' = WeatherText(slide_cnt)
          /\ slides' = IF sv.int >= 500 THEN slides + 1 ELSE slides
    /\ mqtt_pc' = "line159"
    /\ mqtt_topic' = TOPIC_WEATHER
    /\ calls' = calls + 1
    /\ msg_call' = calls + 1
    /\ UNCHANGED <<message_display_time, this_location, collision_location,
                   now, resources, mqtt_latitude, run_pc, ticked, kuksa,
                   stamped, returned, run_history>>

\* Lines 134-140 for a weather message.  Only this thread writes slide_value,
\* humidity and slide_cnt and no other thread reads them, so the lines up to
\* the write of message_to_display are one step.
OnMessageWeather(payload) ==
    /\ Delivered
    /\ IsObject(payload)
    /\ LET data == json_loads(payload)
           sv == Get(data, "slide_value", PyInt(0))
           cnt == IF CountsAsSlide(sv) THEN slide_cnt + 1 ELSE slide_cnt
       IN /\ CanCompare(sv)
          /\ slide_value' = sv
          /\ humidity' = Get(data, "humidity", PyInt(0))
          /\ slide_cnt' = cnt
          /\ message_to_display' = WeatherText(cnt)
          /\ slides' = IF sv.int >= 500 THEN slides + 1 ELSE slides
    /\ mqtt_pc' = "line159"
    /\ mqtt_topic' = TOPIC_WEATHER
    /\ calls' = calls + 1
    /\ msg_call' = calls + 1
    /\ UNCHANGED <<message_display_time, this_location, collision_location,
                   now, resources, mqtt_latitude, run_pc, ticked, kuksa,
                   stamped, returned, run_history>>

\* Variant of OnMessageWeatherTypeError: the text is written before the
\* comparison, so a payload that is dropped still sets a message.
OnMessageWeatherTypeErrorShows(payload) ==
    /\ Delivered
    /\ IsObject(payload)
    /\ LET data == json_loads(payload)
           sv == Get(data, "slide_value", PyInt(0))
       IN /\ ~CanCompare(sv)
          /\ slide_value' = sv
          /\ humidity' = Get(data, "humidity", PyInt(0))
    /\ message_to_display' = WeatherText(slide_cnt)
    /\ calls' = calls + 1
    /\ returned' = "type error"
    /\ UNCHANGED <<slide_cnt, message_display_time, this_location,
                   collision_location, now, resources, mqtt_pc, mqtt_topic,
                   mqtt_latitude, run_pc, ticked, kuksa, msg_call, stamped,
                   slides, run_history>>

\* Lines 135-137 for a weather message whose slide_value is not a number: the
\* two fields are stored, then ">=" raises TypeError and the call returns.
OnMessageWeatherTypeError(payload) ==
    /\ Delivered
    /\ IsObject(payload)
    /\ LET data == json_loads(payload)
           sv == Get(data, "slide_value", PyInt(0))
       IN /\ ~CanCompare(sv)
          /\ slide_value' = sv
          /\ humidity' = Get(data, "humidity", PyInt(0))
    /\ calls' = calls + 1
    /\ returned' = "type error"
    /\ UNCHANGED <<message_to_display, slide_cnt, message_display_time,
                   this_location, collision_location, now, resources, mqtt_pc,
                   mqtt_topic, mqtt_latitude, run_pc, ticked, kuksa, msg_call,
                   stamped, slides, run_history>>

\* Line 142: the stored collision location is replaced by whatever the payload
\* holds under "collision_location", None when the key is missing.
OnMessageAlert(payload) ==
    /\ Delivered
    /\ IsObject(payload)
    /\ collision_location' = Get(json_loads(payload), "collision_location", PyNone)
    /\ mqtt_pc' = "line146"
    /\ mqtt_topic' = TOPIC_ALERT
    /\ calls' = calls + 1
    /\ UNCHANGED <<message_to_display, slide_value, humidity, slide_cnt,
                   message_display_time, this_location, now, resources,
                   mqtt_latitude, run_pc, ticked, kuksa, on_message_history,
                   run_history>>

\* The arguments of geopy.distance.distance can be built and measured: both
\* keys present, both numbers.
IsLocation(loc) ==
    /\ CanIndex(loc, "latitude") /\ CanIndex(loc, "longitude")
    /\ loc.items.latitude.type = "int" /\ loc.items.longitude.type = "int"

\* Variant of OnMessageAlertError: line 159 runs although the alert was
\* dropped, as it would from a finally clause.
OnMessageAlertErrorStamps ==
    /\ mqtt_pc = "line146"
    /\ ~IsLocation(collision_location)
    /\ message_display_time' = PyTime(now)
    /\ mqtt_pc' = "idle"
    /\ mqtt_topic' = ""
    /\ returned' = "alert error"
    /\ UNCHANGED <<message_to_display, slide_value, humidity, slide_cnt,
                   this_location, collision_location, now, resources,
                   mqtt_latitude, calls, run_pc, ticked, kuksa, msg_call,
                   stamped, slides, run_history>>

\* Lines 146-149 on a location that is no latitude/longitude pair: the
\* subscript or geopy raises, the except clause logs and the call returns.
OnMessageAlertError ==
    /\ mqtt_pc = "line146"
    /\ ~IsLocation(collision_location)
    /\ mqtt_pc' = "idle"
    /\ mqtt_topic' = ""
    /\ returned' = "alert error"
    /\ UNCHANGED <<app, now, resources, mqtt_latitude, calls, run_pc, ticked,
                   kuksa, msg_call, stamped, slides, run_history>>

\* Line 149, first subscript: self.this_location["latitude"].
OnMessageReadLatitude ==
    /\ mqtt_pc = "line146"
    /\ IsLocation(collision_location)
    /\ mqtt_latitude' = this_location.latitude
    /\ mqtt_pc' = "line149"
    /\ UNCHANGED <<app, now, resources, mqtt_topic, calls, run_pc, ticked,
                   kuksa, on_message_history, run_history>>

\* Variant of OnMessageDistance: a weather message on display has priority
\* and is not overwritten by the collision text.
OnMessageDistanceKeepsWeather ==
    /\ mqtt_pc = "line149"
    /\ IF Truthy(message_to_display)
       THEN UNCHANGED <<message_to_display, msg_call>>
       ELSE /\ message_to_display' =
                  CollisionText(PyKm(collision_location.items.latitude,
                                     collision_location.items.longitude,
                                     mqtt_latitude, this_location.longitude))
            /\ msg_call' = calls
    /\ mqtt_latitude' = PyNone
    /\ mqtt_pc' = "line159"
    /\ UNCHANGED <<slide_value, humidity, slide_cnt, message_display_time,
                   this_location, collision_location, now, resources,
                   mqtt_topic, calls, run_pc, ticked, kuksa, stamped,
                   returned, slides, run_history>>

\* Line 149, second subscript: self.this_location["longitude"], then the
\* distance and lines 151-152.
OnMessageDistance ==
    /\ mqtt_pc = "line149"
    /\ message_to_display' =
          CollisionText(PyKm(collision_location.items.latitude,
                             collision_location.items.longitude,
                             mqtt_latitude, this_location.longitude))
    /\ mqtt_latitude' = PyNone
    /\ mqtt_pc' = "line159"
    /\ msg_call' = calls
    /\ UNCHANGED <<slide_value, humidity, slide_cnt, message_display_time,
                   this_location, collision_location, now, resources,
                   mqtt_topic, calls, run_pc, ticked, kuksa, stamped,
                   returned, slides, run_history>>

\* Line 159: self.message_display_time = time.time().
OnMessageStamp ==
    /\ mqtt_pc = "line159"
    /\ message_display_time' = PyTime(now)
    /\ mqtt_pc' = "idle"
    /\ mqtt_topic' = ""
    /\ stamped' = [call |-> calls, topic |-> mqtt_topic, at |-> now]
    /\ returned' = "stamped"
    /\ ticked_late' = FALSE
    /\ UNCHANGED <<message_to_display, slide_value, humidity, slide_cnt,
                   this_location, collision_location, now, resources,
                   mqtt_latitude, calls, run_pc, ticked, kuksa, msg_call,
                   slides, seen>>

\* ------------------------------------------------------------ monitor_kuksa
\* The event loop is one thread.  monitor_kuksa has no await: from its first
\* line to its return it holds that thread, also while the generator of
\* subscribe_current_values waits for the next notification.
KuksaHoldsLoop == kuksa_pc \in {"line166", "line177"}

\* The task created at line 183 gets its first turn when run() reaches its
\* first await (line 204); it subscribes and waits for the first item.
KuksaStart ==
    /\ kuksa_pc = "created"
    /\ run_pc = "line204"
    /\ kuksa_pc' = "line166"
    /\ UNCHANGED <<app, now, resources, mqtt, run_pc, ticked, kuksa_longitude,
                   updates, on_message_history, run_history>>

\* update.get(path).value raises AttributeError when the notification does
\* not carry the path.
CarriesBoth(update) == {LATITUDE, LONGITUDE} \subseteq DOMAIN update

\* Lines 172-173 raise on a notification that lacks one of the two paths: the
\* except clause at line 179 is outside the for loop, so the task returns.
KuksaUpdateError(update) ==
    /\ kuksa_pc = "line166"
    /\ updates < MaxUpdates
    /\ ~CarriesBoth(update)
    /\ kuksa_pc' = "returned"
    /\ updates' = updates + 1
    /\ UNCHANGED <<app, now, resources, mqtt, run_pc, ticked, kuksa_longitude,
                   on_message_history, run_history>>

\* "if latitude and longitude"
BothPresent(latitude, longitude) == Truthy(latitude) /\ Truthy(longitude)

\* Lines 172-176: both values are read and, when both are true values, the
\* latitude is stored.
KuksaStoreLatitude(update) ==
    /\ kuksa_pc = "line166"
    /\ updates < MaxUpdates
    /\ CarriesBoth(update)
    /\ BothPresent(update[LATITUDE].value, update[LONGITUDE].value)
    /\ this_location' = [this_location EXCEPT !.latitude = update[LATITUDE].value]
    /\ kuksa_longitude' = update[LONGITUDE].value
    /\ kuksa_pc' = "line177"
    /\ updates' = updates + 1
    /\ UNCHANGED <<message_to_display, slide_value, humidity, slide_cnt,
                   message_display_time, collision_location, now, resources,
                   mqtt, run_pc, ticked, on_message_history, run_history>>

\* Line 177: the longitude is stored and the loop asks for the next item.
KuksaStoreLongitude ==
    /\ kuksa_pc = "line177"
    /\ this_location' = [this_location EXCEPT !.longitude = kuksa_longitude]
    /\ kuksa_longitude' = PyNone
    /\ kuksa_pc' = "line166"
    /\ UNCHANGED <<message_to_display, slide_value, humidity, slide_cnt,
                   message_display_time, collision_location, now, resources,
                   mqtt, run_pc, ticked, updates, on_message_history,
                   run_history>>

\* Lines 172-175 on a notification whose latitude or longitude is None or 0:
\* nothing is stored and the loop asks for the next item.
KuksaSkip(update) ==
    /\ kuksa_pc = "line166"
    /\ updates < MaxUpdates
    /\ CarriesBoth(update)
    /\ ~BothPresent(update[LATITUDE].value, update[LONGITUDE].value)
    /\ updates' = updates + 1
    /\ UNCHANGED <<app, now, resources, mqtt, run_pc, ticked, kuksa_pc,
                   kuksa_longitude, on_message_history, run_history>>

\* The generator raises (the connection to the databroker is lost) or ends:
\* line 179 logs and the task returns.
KuksaStreamEnds ==
    /\ kuksa_pc = "line166"
    /\ kuksa_pc' = "returned"
    /\ UNCHANGED <<app, now, resources, mqtt, run_pc, ticked, kuksa_longitude,
                   updates, on_message_history, run_history>>

\* ---------------------------------------------------------------------- run
\* Line 183: asyncio.create_task(self.monitor_kuksa()).
RunStart ==
    /\ run_pc = "line183"
    /\ kuksa_pc' = "created"
    /\ run_pc' = "line185"
    /\ UNCHANGED <<app, now, resources, mqtt, ticked, kuksa_longitude,
                   updates, on_message_history, run_history>>

\* Lines 185-188: the window was closed; pygame.quit() and sys.exit().
RunQuit ==
    /\ run_pc = "line185"
    /\ screen' = "quit"
    /\ run_pc' = "exited"
    /\ UNCHANGED <<app, now, mqtt_client, kuksa_client, mqtt, ticked, kuksa,
                   on_message_history, run_history>>

\* SIGTERM, lines 261-265.  The handler registered with add_signal_handler is
\* LOOP.stop, which the event loop calls when it is back in its selector:
\* run() is suspended at line 204 and monitor_kuksa is not holding the loop.
\* A signal that arrives in the middle of a tick is handled at that point.
\* run_until_complete then raises RuntimeError, the finally clause closes the
\* loop and the process ends.  on_stop (lines 116-120) is the only code that
\* releases the two clients, and nothing calls it.
Sigterm ==
    /\ run_pc = "line204"
    /\ ~KuksaHoldsLoop
    /\ run_pc' = "stopped"
    /\ UNCHANGED <<app, now, resources, mqtt, ticked, kuksa,
                   on_message_history, run_history>>

\* display_message, line 207: '"Slide Count" in text'.
IsWeatherText(text) == text.parts[1] = "Slide Count: "

\* display_message, lines 207-224: the overlay drawn for a text, named by the
\* topic whose alert it belongs to.
OverlayOf(text) == IF IsWeatherText(text) THEN TOPIC_WEATHER ELSE TOPIC_ALERT

\* display_message, line 218: self.collision_location["latitude"] < 52 can be
\* evaluated.
CanDrawCollision(loc) ==
    CanIndex(loc, "latitude") /\ CanCompare(loc.items.latitude)

\* "time.time() - self.message_display_time > 5"
Expired(t, stamp) == t - stamp.secs > displayTTL

\* The latest call of on_message was an alert that ran to line 159, and no
\* message has been delivered since.
Settled == mqtt_pc = "idle" /\ returned = "stamped"

\* A tick at the present time is later than 5 s after that alert.
Late == Settled /\ now > stamped.at + 5

\* Lines 193-195 with a message set: display_message draws the overlay of the
\* message's kind.
RunShowMessage ==
    /\ run_pc = "line185"
    /\ Truthy(message_to_display)
    /\ IF IsWeatherText(message_to_display) THEN TRUE
       ELSE CanDrawCollision(collision_location)
    /\ run_pc' = "line196"
    /\ ticked_late' = (ticked_late \/ Late)
    /\ seen' = msg_call
    /\ UNCHANGED <<app, now, resources, mqtt, ticked, kuksa,
                   on_message_history>>

\* Lines 193-195 and 218 with a collision message set and a stored collision
\* location that cannot be subscripted or compared: TypeError leaves run().
RunShowMessageError ==
    /\ run_pc = "line185"
    /\ Truthy(message_to_display)
    /\ ~IsWeatherText(message_to_display)
    /\ ~CanDrawCollision(collision_location)
    /\ run_pc' = "raised at line 218"
    /\ UNCHANGED <<app, now, resources, mqtt, ticked, kuksa,
                   on_message_history, run_history>>

\* Lines 198-204 with no message: the idle background, then the sleep.
RunShowBackground ==
    /\ run_pc = "line185"
    /\ ~Truthy(message_to_display)
    /\ run_pc' = "line204"
    /\ ticked' = TRUE
    /\ ticked_late' = (ticked_late \/ Late)
    /\ UNCHANGED <<app, now, resources, mqtt, kuksa, on_message_history,
                   seen>>

\* Line 196 with a time stamp: the expiry test.
RunExpiryTest ==
    /\ run_pc = "line196"
    /\ message_display_time # PyNone
    /\ IF Expired(now, message_display_time)
       THEN run_pc' = "line197" /\ UNCHANGED ticked
       ELSE run_pc' = "line204" /\ ticked' = TRUE
    /\ seen' = 0
    /\ UNCHANGED <<app, now, resources, mqtt, kuksa, on_message_history,
                   ticked_late>>

\* Line 196 with message_display_time still None: float - None raises
\* TypeError, which leaves run().
RunExpiryTestError ==
    /\ run_pc = "line196"
    /\ message_display_time = PyNone
    /\ run_pc' = "raised at line 196"
    /\ UNCHANGED <<app, now, resources, mqtt, ticked, kuksa,
                   on_message_history, run_history>>

\* Line 197: self.message_to_display = None, then the sleep.
RunClear ==
    /\ run_pc = "line197"
    /\ message_to_display' = PyNone
    /\ run_pc' = "line204"
    /\ ticked' = TRUE
    /\ UNCHANGED <<slide_value, humidity, slide_cnt, message_display_time,
                   this_location, collision_location, now, resources, mqtt,
                   kuksa, on_message_history, run_history>>

\* Line 204: asyncio.sleep(0.03) returns when the event loop gives run() its
\* next turn, which it can only do when monitor_kuksa is not holding it.
RunWake ==
    /\ run_pc = "line204"
    /\ kuksa_pc = "returned"
    /\ run_pc' = "line185"
    /\ UNCHANGED <<app, now, resources, mqtt, ticked, kuksa,
                   on_message_history, run_history>>

\* ------------------------------------------------------------------- clock
\* run() owes a tick: the loop's period (lines 203-204) is some 60 ms, so
\* unless the process is over or monitor_kuksa holds the event loop, a tick
\* completes before a second has passed.
TickDue == ~Ended /\ ~KuksaHoldsLoop /\ ~ticked

\* One second passes.
Advance ==
    /\ now < MaxTime
    /\ ~TickDue
    /\ now' = now + 1
    /\ ticked' = FALSE
    /\ UNCHANGED <<app, resources, mqtt, run_pc, kuksa, on_message_history,
                   run_history>>

Next ==
    \/ \E topic \in Topics : \E payload \in Payloads(topic) :
          OnMessageDecodeError(topic, payload)
    \/ \E payload \in Payloads(TOPIC_WEATHER) : OnMessageWeather(payload)
    \/ \E payload \in Payloads(TOPIC_WEATHER) : OnMessageWeatherTypeError(payload)
    \/ \E payload \in Payloads(TOPIC_ALERT) : OnMessageAlert(payload)
    \/ OnMessageAlertError
    \/ OnMessageReadLatitude
    \/ OnMessageDistance
    \/ OnMessageStamp
    \/ KuksaStart
    \/ \E update \in Updates : KuksaUpdateError(update)
    \/ \E update \in Updates : KuksaStoreLatitude(update)
    \/ KuksaStoreLongitude
    \/ \E update \in Updates : KuksaSkip(update)
    \/ KuksaStreamEnds
    \/ RunStart
    \/ RunQuit
    \/ Sigterm
    \/ RunShowMessage
    \/ RunShowMessageError
    \/ RunShowBackground
    \/ RunExpiryTest
    \/ RunExpiryTestError
    \/ RunClear
    \/ RunWake
    \/ Advance

Spec == Init /\ [][Next]_vars

\* Every step of run() and of on_message that is enabled is eventually taken
\* (the event loop and the MQTT thread keep running their code), and the task
\* created at line 183 gets its first turn.  Nothing is assumed of the
\* inputs: messages, updates, the end of the stream.
FairSpec ==
    /\ Spec
    /\ WF_vars(RunStart)
    /\ WF_vars(RunShowMessage \/ RunShowMessageError \/ RunShowBackground)
    /\ WF_vars(RunExpiryTest \/ RunExpiryTestError)
    /\ WF_vars(RunClear)
    /\ WF_vars(RunWake)
    /\ WF_vars(KuksaStart)
    /\ WF_vars(KuksaStoreLongitude)
    /\ WF_vars(OnMessageAlertError \/ OnMessageReadLatitude)
    /\ WF_vars(OnMessageDistance)
    /\ WF_vars(OnMessageStamp)

\* ------------------------------------------------------------------ claims
\* A step of run() that draws a frame: lines 193-200.
Draws == run_pc = "line185" /\ run_pc' # "line185"

\* C1: after a valid alert processed at time T with no later message, every
\* tick with now <= T + 5 draws the overlay of that alert's kind, and the
\* first tick with now > T + 5 draws the idle background.
C1_Claim ==
    [][(Draws /\ Settled) =>
          IF now <= stamped.at + 5
          THEN /\ run_pc' = "line196"
               /\ OverlayOf(message_to_display) = stamped.topic
          ELSE ticked_late \/ run_pc' = "line204"]_vars

\* C2: whenever on_message is not in a call and a message is on display, the
\* message and its time stamp are those written by the most recent alert that
\* was processed: its text, its kind, the time of its line 159.
C2_LastWriteWins ==
    (mqtt_pc = "idle" /\ Truthy(message_to_display)) =>
        /\ msg_call = stamped.call
        /\ OverlayOf(message_to_display) = stamped.topic
        /\ message_display_time = PyTime(stamped.at)

\* A weather alert, then a collision alert: the collision message is on
\* display with the time stamp of the second call.
C2_Witness ==
    /\ mqtt_pc = "idle"
    /\ calls = 2
    /\ slides = 1
    /\ stamped.call = 2
    /\ stamped.at > 0
    /\ Truthy(message_to_display)
    /\ ~IsWeatherText(message_to_display)

\* C3: a message set at time T is cleared no later than T + 5: while the
\* process lives, once run() owes no tick for the present second, no message
\* older than 5 s is set.
C3_Claim ==
    (~TickDue /\ ~Ended /\ mqtt_pc = "idle" /\ Truthy(message_to_display))
        => now <= message_display_time.secs + displayTTL

\* C4: as long as the telemetry stream stays open (monitor_kuksa does not
\* return) and the process is not over, run() draws a frame again and again.
C4_Claim ==
    [](kuksa_pc # "returned" /\ ~Ended)
        => []<><<RunShowMessage \/ RunShowBackground>>_vars

\* C5: run() never ends with an unhandled error, whatever payloads and
\* updates arrive.
C5_Claim == ~Raised

\* C6: the tick that reads the time stamp at line 196 reads the stamp of the
\* alert whose text it has drawn or of a later one, never that of an earlier
\* alert and never None.
C6_Claim ==
    [][(run_pc = "line196" /\ run_pc' # "line196") =>
          message_display_time # PyNone /\ stamped.call >= seen]_vars

\* C7: slide_cnt is the number of weather payloads processed so far whose
\* slide_value was >= 500.
C7_SlideCount == slide_cnt = slides

\* A payload with slide_value 500, then one with 499: counted once.
C7_Witness ==
    /\ mqtt_pc = "idle"
    /\ calls = 2
    /\ slide_value = PyInt(499)
    /\ slide_cnt = 1

\* C8: the steps of on_message on a collision payload whose
\* collision_location is missing or no latitude/longitude pair (line 142,
\* then the raise in lines 146-149) change none of message_to_display,
\* message_display_time, slide_cnt and this_location.
C8_MalformedCollisionDropped ==
    [][(\/ mqtt_pc = "idle" /\ mqtt_pc' = "line146"
              /\ ~IsLocation(collision_location')
        \/ mqtt_pc = "line146" /\ mqtt_pc' = "idle")
       => UNCHANGED <<message_to_display, message_display_time, slide_cnt,
                      this_location>>]_vars

\* A malformed collision payload has been dropped while a message was on
\* display.
C8_Witness ==
    /\ mqtt_pc = "idle"
    /\ returned = "alert error"
    /\ Truthy(message_to_display)
    /\ message_display_time # PyNone

\* C9: the call of on_message on a payload that is not UTF-8 or not JSON
\* changes no field of the object.
C9_DecodeFailureDropped ==
    [][(/\ mqtt_pc = "idle" /\ mqtt_pc' = "idle"
        /\ calls' = calls + 1
        /\ returned' = "decode error")
       => UNCHANGED app]_vars

\* An undecodable payload has been dropped while a message was on display.
C9_Witness ==
    /\ mqtt_pc = "idle"
    /\ returned = "decode error"
    /\ Truthy(message_to_display)
    /\ message_display_time # PyNone

\* The notification reports None for an axis, or does not report the axis.
ReportsNull(update) ==
    \E p \in {LATITUDE, LONGITUDE} :
        IF p \in DOMAIN update THEN update[p].value = PyNone ELSE TRUE

\* C10: monitor_kuksa skips an update that reports an absent or null value
\* for an axis: this_location is kept and the loop waits for the next update.
C10_Claim ==
    [][\A update \in Updates :
          (/\ ReportsNull(update)
           /\ \/ KuksaUpdateError(update)
              \/ KuksaSkip(update)
              \/ KuksaStoreLatitude(update))
          => this_location' = this_location /\ kuksa_pc' = "line166"]_vars

\* The notification carries both paths and both values are numbers.
ReportsPair(update) ==
    /\ CarriesBoth(update)
    /\ update[LATITUDE].value.type = "int"
    /\ update[LONGITUDE].value.type = "int"

\* The step of monitor_kuksa that takes the update from the generator.
Consumes(update) ==
    \/ KuksaUpdateError(update)
    \/ KuksaSkip(update)
    \/ KuksaStoreLatitude(update)

\* C11: this_location follows the valid updates and nothing else: an update
\* with two numbers, 0 included, is stored (the latitude at once, the
\* longitude by the next step of monitor_kuksa, which stores what the update
\* held), and any other update leaves this_location as it was.
C11_Claim ==
    [][/\ \A update \in Updates :
            Consumes(update) =>
                IF ReportsPair(update)
                THEN /\ this_location'.latitude = update[LATITUDE].value
                     /\ kuksa_longitude' = update[LONGITUDE].value
                     /\ kuksa_pc' = "line177"
                ELSE this_location' = this_location
       /\ KuksaStoreLongitude => this_location'.longitude = kuksa_longitude]_vars

\* The positions this_location holds between two updates: the one of line
\* 113 and the pairs of the updates that line 175 lets through.
WholeLocations ==
    {<<PyInt(50), PyInt(9)>>}
        \cup { <<update[LATITUDE].value, update[LONGITUDE].value>> :
                 update \in { u \in Updates : ReportsPair(u) } }

\* The position a collision text was computed from: the third and fourth
\* argument of the distance.
MeasuredFrom(text) == <<text.parts[2].km[3], text.parts[2].km[4]>>

\* C12: the latitude and longitude from which on_message computes a
\* collision distance come from the same telemetry update (or both from the
\* initial position): the computed text never mixes two positions.
C12_Claim ==
    (Truthy(message_to_display) /\ ~IsWeatherText(message_to_display))
        => MeasuredFrom(message_to_display) \in WholeLocations

\* The process has shut down: the window was closed (line 188) or SIGTERM
\* stopped the event loop.
ShutDown == run_pc \in {"exited", "stopped"}

\* C13: once the process has shut down, by the quit event or by SIGTERM, the
\* MQTT client is disconnected, the KUKSA client is closed and the display is
\* released.
C13_Claim ==
    ShutDown =>
        /\ mqtt_client = "disconnected"
        /\ kuksa_client = "closed"
        /\ screen = "quit"

\* A step of on_message that writes an alert's text: line 139 or lines
\* 151-152.
WritesText ==
    /\ mqtt_pc \in {"idle", "line149"}
    /\ mqtt_pc' = "line159"
    /\ message_to_display'.type = "str"

\* C14: no message is set at the start, and the only steps that end a state
\* without message are those in which on_message writes the text of an alert
\* it has accepted: no tick, no telemetry update, no passing of time and no
\* dropped payload does.
C14_IdlePersists ==
    [][/\ (calls = 0 /\ mqtt_pc = "idle") => ~Truthy(message_to_display)
       /\ (~Truthy(message_to_display) /\ Truthy(message_to_display'))
             => WritesText]_vars

\* No message has ever been delivered; run() has drawn the background over
\* several seconds, monitor_kuksa has stored an update and returned, and
\* run() is drawing again.
C14_Witness ==
    /\ ~Truthy(message_to_display)
    /\ calls = 0
    /\ now >= 2
    /\ updates = 1
    /\ this_location.latitude = PyInt(51)
    /\ kuksa_pc = "returned"
    /\ run_pc = "line185"

\* A weather payload the claims call valid: a JSON object whose slide_value
\* is a number or absent.
ValidWeather(payload) ==
    /\ IsObject(payload)
    /\ Get(json_loads(payload), "slide_value", PyInt(0)).type = "int"

\* C15: on_message on a valid weather payload, with slide_value below 500 or
\* absent as well, sets the weather message "Slide Count: " followed by
\* slide_cnt as it is after this event's own increment, and its line 159
\* stamps the message with the present time, so that it expires 5 s from now.
C15_WeatherTransition ==
    [][/\ \A payload \in Payloads(TOPIC_WEATHER) :
            (ValidWeather(payload) /\ OnMessageWeather(payload)) =>
                /\ slide_cnt' = slide_cnt +
                       (IF Get(json_loads(payload), "slide_value",
                               PyInt(0)).int >= 500 THEN 1 ELSE 0)
                /\ message_to_display' = PyStr(<<"Slide Count: ", slide_cnt'>>)
                /\ OverlayOf(message_to_display') = TOPIC_WEATHER
       /\ (mqtt_pc = "line159" /\ mqtt_topic = TOPIC_WEATHER /\ mqtt_pc' = "idle")
             => /\ message_display_time' = PyTime(now)
                /\ ~Expired(now + 5, message_display_time')
                /\ Expired(now + 6, message_display_time')]_vars

\* A payload with slide_value 500, then {} : the second call has returned,
\* the count is still 1 and the message shows it with the new stamp.
C15_Witness ==
    /\ mqtt_pc = "idle"
    /\ calls = 2
    /\ returned = "stamped"
    /\ stamped.topic = TOPIC_WEATHER
    /\ slide_value = PyInt(0)
    /\ slide_cnt = 1
    /\ message_to_display = WeatherText(1)
    /\ now > 0
    /\ message_display_time = PyTime(now)

\* The notification reports one axis only, with a value.
ReportsOneAxis(update) ==
    /\ ~CarriesBoth(update)
    /\ \A p \in DOMAIN update : update[p].value # PyNone

\* this_location with the axis of a one-axis notification replaced.
WithAxis(location, update) ==
    IF LATITUDE \in DOMAIN update
    THEN [location EXCEPT !.latitude = update[LATITUDE].value]
    ELSE [location EXCEPT !.longitude = update[LONGITUDE].value]

\* C16: an update that reports only the latitude or only the longitude, with
\* a value, replaces that axis of this_location, keeps the other, and
\* monitor_kuksa goes on to wait for the next update.
C16_Claim ==
    [][\A update \in Updates :
          (ReportsOneAxis(update) /\ Consumes(update)) =>
              /\ this_location' = WithAxis(this_location, update)
              /\ kuksa_pc' = "line166"]_vars

\* A step of run() that draws the overlay of a collision message.
DrawsCollision ==
    /\ Draws
    /\ Truthy(message_to_display)
    /\ ~IsWeatherText(message_to_display)
    /\ run_pc' = "line196"

\* C17: a tick that draws a collision message moves the shown distance by a
\* step: it changes the text or the position the distance is measured from,
\* so that the next tick shows another value.
C17_Claim ==
    [][DrawsCollision =>
          <<message_to_display, this_location, collision_location>>'
              # <<message_to_display, this_location, collision_location>>]_vars

\* C18: the clear at line 197 removes only a message whose expiry the tick
\* has tested: when it executes, the message on display is one whose stamp
\* has been written and that stamp is older than 5 s.  An alert whose text
\* and stamp were both written after the test is not removed.
C18_Claim ==
    [][(run_pc = "line197" /\ run_pc' = "line204") =>
          /\ msg_call = stamped.call
          /\ Expired(now, message_display_time)]_vars

\* C19: whenever message_to_display is set, message_display_time is set too.
C19_Claim == Truthy(message_to_display) => message_display_time # PyNone

\* The location a collision text was computed for: the first and second
\* argument of the distance.
MeasuredTo(text) ==
    PyDict([latitude |-> text.parts[2].km[1], longitude |-> text.parts[2].km[2]])

\* C20: collision_location is only ever replaced by a latitude/longitude
\* pair, and when run() draws the collision overlay collision_location is the
\* pair the text on display was computed for.
C20_Claim ==
    [][/\ collision_location' # collision_location
             => IsLocation(collision_location')
       /\ (Draws /\ Truthy(message_to_display)
             /\ ~IsWeatherText(message_to_display))
             => collision_location = MeasuredTo(message_to_display)]_vars

====
